---------------------------- MODULE Spec2Model ----------------------------
(***************************************************************************)
(* Model of the order-book / trade-tape analysis functions of              *)
(*   src/order_book.py  (analyze_orderbook)                                *)
(*   src/trades.py      (analyze_trades)                                   *)
(*   src/app.py         (get_trades, get_order_book, the metrics)         *)
(*   src/vwap.py        (the standalone copy of the same seven metrics)    *)
(*                                                                         *)
(* Numbers.  Prices are whole dollars.  Quantities (volumes) are counted   *)
(* in hundredths (1 unit = 0.01), so the 0.001 floor of the code is 1/10   *)
(* unit and the 1.0 "large trade" threshold is 100 units.  Every derived   *)
(* real (ratio, score, average, VWAP) is an exact fraction [n, d] in       *)
(* lowest terms with d > 0; Python's binary floating point is modelled by  *)
(* exact rational arithmetic.                                              *)
(***************************************************************************)
EXTENDS Integers, Sequences, FiniteSets, TLC

VARIABLES
    orderbook_json,   \* raw order book handed to analyze_orderbook / fetched by get_order_book
    order_book,       \* formatted book returned by get_order_book (None before)
    raw_trades,       \* raw trade list handed to analyze_trades / fetched by get_trades
    trades,           \* formatted trade list returned by get_trades (None before)
    fn,               \* name of the function called last
    mod,              \* source file whose copy of the function was called
    levels,           \* the `levels` argument of the last call (None when it has none)
    ret,              \* outcome of the last call: returned value or raised exception
    earlier           \* a call made earlier, kept with its arguments and its
                      \* outcome for comparison with later calls (None: none kept)

vars == <<orderbook_json, order_book, raw_trades, trades, fn, mod, levels, ret,
          earlier>>

-----------------------------------------------------------------------------
(* Bounds of the model *)

MaxLevels == 2        \* longest bid / ask side drawn
MaxTrades == 3        \* longest explicitly enumerated trade list

Prices == {89, 90, 100}            \* level prices, dollars
Qtys == {0, 1, 200}                \* level quantities: 0, 0.01 and 2.0
RevisionIds == {42}                \* lastUpdateId values
TradePrices == {100, 102}          \* trade prices, dollars
TradeQtys == {0, 5, 100}           \* trade quantities: 0, 0.05 and 1.0
RunLengths == {5, 6, 10, 11, 21}   \* lengths of the first run of a long tape

-----------------------------------------------------------------------------
(* Python values *)

None == <<>>                    \* Python's None (also: "nothing returned")
Some(x) == <<x>>                \* a present optional value

Returned(v) == [status |-> "returned", exc |-> "", value |-> v]
Raised(e) == [status |-> "raised", exc |-> e, value |-> None]
NotCalled == [status |-> "none", exc |-> "", value |-> None]

-----------------------------------------------------------------------------
(* Exact rational arithmetic standing for Python floats *)

Abs(x) == IF x < 0 THEN -x ELSE x
Max(a, b) == IF a >= b THEN a ELSE b
Min(a, b) == IF a <= b THEN a ELSE b

RECURSIVE GCD(_, _)
GCD(a, b) == IF b = 0 THEN a ELSE GCD(b, a % b)

\* the fraction n/d (d # 0) in lowest terms with a positive denominator
Q(n, d) ==
    LET s == IF d < 0 THEN -1 ELSE 1
        g == GCD(Abs(n), Abs(d))
    IN  [n |-> (s * n) \div g, d |-> (s * d) \div g]

QInt(k) == [n |-> k, d |-> 1]
\* (common factors are cancelled before multiplying, to keep the integers small)
QAdd(a, b) ==
    LET g == GCD(a.d, b.d)
    IN  Q(a.n * (b.d \div g) + b.n * (a.d \div g), (a.d \div g) * b.d)
QNeg(a) == [n |-> -a.n, d |-> a.d]
QSub(a, b) == QAdd(a, QNeg(b))
QMul(a, b) ==
    LET g1 == GCD(Abs(a.n), b.d)
        g2 == GCD(Abs(b.n), a.d)
    IN  Q((a.n \div g1) * (b.n \div g2), (a.d \div g2) * (b.d \div g1))
QInv(a) == Q(a.d, a.n)                          \* a # 0
QDiv(a, b) == QMul(a, QInv(b))                  \* b # 0
QLt(a, b) == a.n * b.d < b.n * a.d
QLe(a, b) == a.n * b.d <= b.n * a.d
QMin(a, b) == IF QLe(a, b) THEN a ELSE b       \* min(a, b)
QMax(a, b) == IF QLt(a, b) THEN b ELSE a       \* max(a, b)

\* Python 3 round(x): nearest integer, ties to the even one
PyRound(x) ==
    LET f == x.n \div x.d
        r2 == 2 * (x.n - f * x.d)
    IN  IF r2 < x.d THEN f
        ELSE IF r2 > x.d THEN f + 1
        ELSE IF f % 2 = 0 THEN f ELSE f + 1

\* round(x, k decimals), written with the scale 10^k
PyRoundTo(x, scale) == Q(PyRound(QMul(x, QInt(scale))), scale)

\* the literals of the code that are quantities, in quantity units
Qty0_001 == Q(1, 10)            \* 0.001
Qty0_1 == QInt(10)              \* 0.1
Qty1_0 == QInt(100)             \* 1.0
Qty0_5_squared == QInt(2500)    \* 0.5 * 0.5

-----------------------------------------------------------------------------
(* Sequence helpers: Python's sum(...), slicing and comprehension filters *)

\* s[lo] + ... + s[hi]
RECURSIVE SumRange(_, _, _)
SumRange(s, lo, hi) ==
    IF lo > hi THEN 0
    ELSE IF lo = hi THEN s[lo]
    ELSE LET mid == (lo + hi) \div 2
         IN  SumRange(s, lo, mid) + SumRange(s, mid + 1, hi)

\* sum(s)
SumSeq(s) == SumRange(s, 1, Len(s))

\* s[:k] for k >= 0
Take(s, k) == SubSeq(s, 1, Min(k, Len(s)))

\* [qty for price, qty in side]
QtysOf(side) == [i \in 1..Len(side) |-> side[i][2]]

-----------------------------------------------------------------------------
(* src/order_book.py *)

OrderBookKeys == {"bids", "asks", "lastUpdateId"}

\* (mutant of OrderbookBullishness: the lower clamp is forgotten)
OrderbookBullishness_NoFloor(raw_score) == Min(PyRound(raw_score), 10)

\* (mutant of OrderbookBullishness: the raw score is rounded up)
OrderbookBullishness_RoundsUp(raw_score) ==
    Max(1, Min(-((-raw_score.n) \div raw_score.d), 10))

\* max(1, min(round(raw_score), 10))
OrderbookBullishness(raw_score) == Max(1, Min(PyRound(raw_score), 10))

\* (mutant of OrderbookScores: the near band of the asks is centred on the
\* best ask)
OrderbookScores_AskCentredBand(bids, asks) ==
    LET top_bid == bids[1][1]
        top_ask == asks[1][1]
        spread == top_ask - top_bid
        near_min == top_bid - 10
        near_max == top_ask + 10
        near_bid_volume ==
            SumSeq(QtysOf(SelectSeq(bids, LAMBDA l : l[1] >= near_min)))
        near_ask_volume ==
            SumSeq(QtysOf(SelectSeq(asks, LAMBDA l : l[1] <= near_max)))
        total_bid_volume == SumSeq(QtysOf(bids))
        total_ask_volume == SumSeq(QtysOf(asks))
        top_bid_size == bids[1][2]
        top_ask_size == asks[1][2]
        near_ratio == QMin(QDiv(QInt(near_bid_volume),
                                QMax(QInt(near_ask_volume), Qty0_001)), QInt(10))
        near_score == QMin(QMul(near_ratio, QInt(2)), QInt(10))
        total_ratio == QMin(QDiv(QInt(total_bid_volume),
                                 QMax(QInt(total_ask_volume), Qty0_001)), QInt(5))
        total_score == QMin(QMul(total_ratio, QInt(1)), QInt(5))
        top_ratio == QMin(QDiv(QInt(top_bid_size),
                               QMax(QInt(top_ask_size), Qty0_001)), QInt(5))
        top_score == QMin(QMul(top_ratio, Q(1, 2)), Q(5, 2))
        raw_score == QAdd(QAdd(QMul(near_score, Q(7, 10)),
                               QMul(total_score, Q(15, 100))),
                          QMul(top_score, Q(15, 100)))
    IN  [top_bid |-> top_bid, top_ask |-> top_ask, spread |-> spread,
         near_min |-> near_min, near_max |-> near_max,
         near_bid_volume |-> near_bid_volume, near_ask_volume |-> near_ask_volume,
         total_bid_volume |-> total_bid_volume, total_ask_volume |-> total_ask_volume,
         top_bid_size |-> top_bid_size, top_ask_size |-> top_ask_size,
         near_ratio |-> near_ratio, near_score |-> near_score,
         total_ratio |-> total_ratio, total_score |-> total_score,
         top_ratio |-> top_ratio, top_score |-> top_score,
         raw_score |-> raw_score,
         bullishness |-> OrderbookBullishness(raw_score)]

\* the body of analyze_orderbook once both keys are known to be present and
\* both sides are non-empty: lines 27-59
OrderbookScores(bids, asks) ==
    LET top_bid == bids[1][1]
        top_ask == asks[1][1]
        spread == top_ask - top_bid
        near_min == top_bid - 10
        near_max == top_bid + 10
        near_bid_volume ==
            SumSeq(QtysOf(SelectSeq(bids, LAMBDA l : l[1] >= near_min)))
        near_ask_volume ==
            SumSeq(QtysOf(SelectSeq(asks, LAMBDA l : l[1] <= near_max)))
        total_bid_volume == SumSeq(QtysOf(bids))
        total_ask_volume == SumSeq(QtysOf(asks))
        top_bid_size == bids[1][2]
        top_ask_size == asks[1][2]
        near_ratio == QMin(QDiv(QInt(near_bid_volume),
                                QMax(QInt(near_ask_volume), Qty0_001)), QInt(10))
        near_score == QMin(QMul(near_ratio, QInt(2)), QInt(10))
        total_ratio == QMin(QDiv(QInt(total_bid_volume),
                                 QMax(QInt(total_ask_volume), Qty0_001)), QInt(5))
        total_score == QMin(QMul(total_ratio, QInt(1)), QInt(5))
        top_ratio == QMin(QDiv(QInt(top_bid_size),
                               QMax(QInt(top_ask_size), Qty0_001)), QInt(5))
        top_score == QMin(QMul(top_ratio, Q(1, 2)), Q(5, 2))
        raw_score == QAdd(QAdd(QMul(near_score, Q(7, 10)),
                               QMul(total_score, Q(15, 100))),
                          QMul(top_score, Q(15, 100)))
    IN  [top_bid |-> top_bid, top_ask |-> top_ask, spread |-> spread,
         near_min |-> near_min, near_max |-> near_max,
         near_bid_volume |-> near_bid_volume, near_ask_volume |-> near_ask_volume,
         total_bid_volume |-> total_bid_volume, total_ask_volume |-> total_ask_volume,
         top_bid_size |-> top_bid_size, top_ask_size |-> top_ask_size,
         near_ratio |-> near_ratio, near_score |-> near_score,
         total_ratio |-> total_ratio, total_score |-> total_score,
         top_ratio |-> top_ratio, top_score |-> top_score,
         raw_score |-> raw_score,
         bullishness |-> OrderbookBullishness(raw_score)]

\* (mutant of analyze_orderbook: only the bids key is checked for)
analyze_orderbook_BidsKeyOnly(ob) ==
    IF ob.keys = {} \/ "bids" \notin ob.keys
    THEN Returned([json |-> [error |-> "Invalid order book data"],
                   rationale |-> None])
    ELSE Raised("KeyError")

\* analyze_orderbook(orderbook_json): the pair (json.dumps(result), rationale).
\* The JSON text is modelled by the dictionary it serialises, the rationale by
\* the values substituted into its template.
analyze_orderbook(ob) ==
    IF ob.keys = {} \/ "bids" \notin ob.keys \/ "asks" \notin ob.keys
    THEN Returned([json |-> [error |-> "Invalid order book data"],
                   rationale |-> None])
    ELSE IF ob.bids = <<>> \/ ob.asks = <<>>
    THEN Raised("IndexError")                       \* bids[0][0] / asks[0][0]
    ELSE IF "lastUpdateId" \notin ob.keys
    THEN Raised("KeyError")                         \* orderbook_json["lastUpdateId"]
    ELSE LET s == OrderbookScores(ob.bids, ob.asks)
         IN  Returned(
               [json |->
                  [bullishness_score |-> s.bullishness,
                   current_price |-> s.top_bid,
                   spread |-> s.spread,
                   near_bid_volume |-> s.near_bid_volume,
                   near_ask_volume |-> s.near_ask_volume,
                   total_bid_volume |-> s.total_bid_volume,
                   total_ask_volume |-> s.total_ask_volume,
                   top_bid_size |-> s.top_bid_size,
                   top_ask_size |-> s.top_ask_size,
                   last_update_id |-> ob.lastUpdateId],
                rationale |-> Some(s)])

-----------------------------------------------------------------------------
(* src/app.py and src/vwap.py: order-book metrics.  Both files hold the     *)
(* same functions; the definitions prefixed vwap_ model the copy in         *)
(* src/vwap.py.                                                             *)

Modules == {"app", "vwap"}

\* get_order_book: the fetched response reformatted; order_book['bids'] and
\* order_book['asks'] are read, lastUpdateId is dropped
get_order_book(response) ==
    IF "bids" \notin response.keys \/ "asks" \notin response.keys
    THEN Raised("KeyError")
    ELSE Returned([bids |-> response.bids, asks |-> response.asks])

vwap_get_order_book(response) ==
    IF "bids" \notin response.keys \/ "asks" \notin response.keys
    THEN Raised("KeyError")
    ELSE LET formatted_order_book == [bids |-> response.bids, asks |-> response.asks]
         IN  Returned(formatted_order_book)

\* (mutant of calculate_bid_ask_spread: best bid minus best ask)
calculate_bid_ask_spread_Reversed(book) ==
    IF book.asks = <<>> \/ book.bids = <<>>
    THEN Raised("IndexError")
    ELSE Returned(book.bids[1][1] - book.asks[1][1])

calculate_bid_ask_spread(book) ==
    IF book.asks = <<>> \/ book.bids = <<>>
    THEN Raised("IndexError")
    ELSE Returned(book.asks[1][1] - book.bids[1][1])

vwap_calculate_bid_ask_spread(book) ==
    IF book.bids = <<>> \/ book.asks = <<>>
    THEN Raised("IndexError")
    ELSE LET best_bid == book.bids[1][1]
             best_ask == book.asks[1][1]
             spread == best_ask - best_bid
         IN  Returned(spread)

calculate_order_book_depth(book, lv) ==
    LET bid_depth == SumSeq(QtysOf(Take(book.bids, lv)))
        ask_depth == SumSeq(QtysOf(Take(book.asks, lv)))
    IN  Returned(<<bid_depth, ask_depth>>)

vwap_calculate_order_book_depth(book, lv) ==
    LET bid_depth == SumSeq(QtysOf(Take(book.bids, lv)))
        ask_depth == SumSeq(QtysOf(Take(book.asks, lv)))
    IN  Returned(<<bid_depth, ask_depth>>)

\* (mutant of calculate_order_book_imbalance: divides by the bid volume)
calculate_order_book_imbalance_BidDenominator(book, lv) ==
    LET bid_volume == SumSeq(QtysOf(Take(book.bids, lv)))
        ask_volume == SumSeq(QtysOf(Take(book.asks, lv)))
    IN  Returned(IF bid_volume > 0
                 THEN Q(bid_volume - ask_volume, bid_volume)
                 ELSE QInt(0))

calculate_order_book_imbalance(book, lv) ==
    LET bid_volume == SumSeq(QtysOf(Take(book.bids, lv)))
        ask_volume == SumSeq(QtysOf(Take(book.asks, lv)))
        total_volume == bid_volume + ask_volume
    IN  Returned(IF total_volume > 0
                 THEN Q(bid_volume - ask_volume, total_volume)
                 ELSE QInt(0))

vwap_calculate_order_book_imbalance(book, lv) ==
    LET bid_volume == SumSeq(QtysOf(Take(book.bids, lv)))
        ask_volume == SumSeq(QtysOf(Take(book.asks, lv)))
        total_volume == bid_volume + ask_volume
        imbalance == IF total_volume > 0
                     THEN Q(bid_volume - ask_volume, total_volume)
                     ELSE QInt(0)
    IN  Returned(imbalance)

-----------------------------------------------------------------------------
(* src/trades.py *)

\* max(1, min(round(raw_score), 10))
TradesBullishness(raw_score) == Max(1, Min(PyRound(raw_score), 10))

\* the trades a market buy filled (not isBuyerMaker) and those a market sell
\* filled (isBuyerMaker): the filters of lines 24, 25 and 28
MarketBuys(tape) == SelectSeq(tape, LAMBDA t : ~t.isBuyerMaker)

MarketSells(tape) == SelectSeq(tape, LAMBDA t : t.isBuyerMaker)

\* [float(trade["qty"]) for trade in trades]
TradeSizes(tape) == [i \in 1..Len(tape) |-> tape[i].qty]

\* statistics.mean(xs), xs non-empty
mean(xs) == Q(SumSeq(xs), Len(xs))

\* the square of statistics.stdev(xs) (the sample variance), Len(xs) > 1:
\* sum((x - m)^2) / (n - 1) = (n * sum(x^2) - sum(x)^2) / (n * (n - 1))
stdev_squared(xs) ==
    LET n == Len(xs)
        s1 == SumSeq(xs)
        s2 == SumSeq([i \in 1..n |-> xs[i] * xs[i]])
    IN  Q(n * s2 - s1 * s1, n * (n - 1))

\* the dictionary filled by the loop of lines 52-54: for each timestamp, the
\* number of trades carrying it
TimestampCounts(tape) ==
    [u \in {tape[i].time : i \in DOMAIN tape} |->
       Cardinality({i \in DOMAIN tape : tape[i].time = u})]

\* max(timestamp_counts.values()) if timestamp_counts else 1
MaxTradesPerMs(tape) ==
    LET timestamp_counts == TimestampCounts(tape)
    IN  IF DOMAIN timestamp_counts = {} THEN 1
        ELSE CHOOSE m \in {timestamp_counts[u] : u \in DOMAIN timestamp_counts} :
               \A u \in DOMAIN timestamp_counts : timestamp_counts[u] <= m

\* (mutant of ClassifyTrader: the professional rule is tried first)
ClassifyTrader_ProfessionalFirst(avg_trade_size, size_std_squared, large_trade_count, max_trades_per_ms) ==
    IF QLe(Qty1_0, avg_trade_size) \/ large_trade_count > 10
       \/ max_trades_per_ms > 20
    THEN "Professional/Institutional"
    ELSE IF QLt(avg_trade_size, Qty0_1) /\ QLt(size_std_squared, Qty0_5_squared)
            /\ max_trades_per_ms <= 5
    THEN "Retail"
    ELSE "Mixed"

\* the if / elif / else of lines 58-78; size_std is given by its square
\* (size_std >= 0, so size_std < 0.5 exactly when its square is < 0.25)
ClassifyTrader(avg_trade_size, size_std_squared, large_trade_count, max_trades_per_ms) ==
    IF QLt(avg_trade_size, Qty0_1) /\ QLt(size_std_squared, Qty0_5_squared)
       /\ max_trades_per_ms <= 5
    THEN "Retail"
    ELSE IF QLe(Qty1_0, avg_trade_size) \/ large_trade_count > 10
            \/ max_trades_per_ms > 20
    THEN "Professional/Institutional"
    ELSE "Mixed"

\* the body of analyze_trades for a non-empty list: lines 22-78
TradeStats(tape) ==
    LET total_volume == SumSeq(TradeSizes(tape))
        buy_volume == SumSeq(TradeSizes(MarketBuys(tape)))
        sell_volume == SumSeq(TradeSizes(MarketSells(tape)))
        market_buy_count == Len(MarketBuys(tape))
        total_trades == Len(tape)
        market_buy_ratio == IF total_trades > 0
                            THEN Q(market_buy_count, total_trades) ELSE QInt(0)
        buy_count == market_buy_count
        sell_count == total_trades - buy_count
        avg_buy_size == IF buy_count > 0 THEN Q(buy_volume, buy_count) ELSE QInt(0)
        avg_sell_size == IF sell_count > 0 THEN Q(sell_volume, sell_count) ELSE QInt(0)
        volume_ratio == QMin(QDiv(QInt(buy_volume),
                                  QMax(QInt(sell_volume), Qty0_001)), QInt(10))
        volume_score == QMin(QMul(volume_ratio, QInt(2)), QInt(10))
        market_score == QMin(QMul(market_buy_ratio, QInt(10)), QInt(10))
        size_ratio == QMin(QDiv(avg_buy_size, QMax(avg_sell_size, Qty0_001)), QInt(5))
        size_score == QMin(QMul(size_ratio, QInt(2)), QInt(5))
        raw_score == QAdd(QAdd(QMul(volume_score, Q(5, 10)),
                               QMul(market_score, Q(3, 10))),
                          QMul(size_score, Q(2, 10)))
        trade_sizes == TradeSizes(tape)
        avg_trade_size == mean(trade_sizes)
        size_std_squared == IF Len(trade_sizes) > 1
                            THEN stdev_squared(trade_sizes) ELSE QInt(0)
        large_trade_count ==
            Len(SelectSeq(trade_sizes, LAMBDA x : QLe(Qty1_0, QInt(x))))
        max_trades_per_ms == MaxTradesPerMs(tape)
    IN  [total_volume |-> total_volume, buy_volume |-> buy_volume,
         sell_volume |-> sell_volume, market_buy_count |-> market_buy_count,
         total_trades |-> total_trades, market_buy_ratio |-> market_buy_ratio,
         buy_count |-> buy_count, sell_count |-> sell_count,
         avg_buy_size |-> avg_buy_size, avg_sell_size |-> avg_sell_size,
         volume_ratio |-> volume_ratio, volume_score |-> volume_score,
         market_score |-> market_score, size_ratio |-> size_ratio,
         size_score |-> size_score, raw_score |-> raw_score,
         bullishness |-> TradesBullishness(raw_score),
         avg_trade_size |-> avg_trade_size, size_std_squared |-> size_std_squared,
         large_trade_count |-> large_trade_count,
         max_trades_per_ms |-> max_trades_per_ms,
         trader_type |-> ClassifyTrader(avg_trade_size, size_std_squared,
                                        large_trade_count, max_trades_per_ms)]

\* analyze_trades(trades): the pair (json.dumps(result), rationale).
\* round(x, 5) of a quantity is rounding to 1/1000 of a quantity unit.
analyze_trades(tape) ==
    IF tape = <<>>
    THEN Returned([json |-> [error |-> "No trade data available"],
                   rationale |-> None])
    ELSE LET s == TradeStats(tape)
         IN  Returned(
               [json |->
                  [bullishness_score |-> s.bullishness,
                   total_volume |-> PyRoundTo(QInt(s.total_volume), 1000),
                   buy_volume |-> PyRoundTo(QInt(s.buy_volume), 1000),
                   sell_volume |-> PyRoundTo(QInt(s.sell_volume), 1000),
                   market_buy_ratio |-> PyRoundTo(s.market_buy_ratio, 1000),
                   avg_buy_size |-> PyRoundTo(s.avg_buy_size, 1000),
                   avg_sell_size |-> PyRoundTo(s.avg_sell_size, 1000),
                   avg_trade_size |-> PyRoundTo(s.avg_trade_size, 1000),
                   large_trade_count |-> s.large_trade_count,
                   trader_type |-> s.trader_type,
                   trade_count |-> s.total_trades,
                   last_trade_time |-> tape[Len(tape)].time],
                rationale |-> Some(s)])

-----------------------------------------------------------------------------
(* src/app.py and src/vwap.py: trade metrics *)

\* datetime.fromtimestamp(time / 1000).strftime('%Y-%m-%d %H:%M:%S'): the
\* epoch milliseconds cut to whole seconds
FormatTimestamp(time) == time \div 1000

get_trades(response) ==
    Returned([i \in 1..Len(response) |->
                [timestamp |-> FormatTimestamp(response[i].time),
                 price |-> response[i].price,
                 volume |-> response[i].qty,
                 side |-> IF response[i].isBuyerMaker THEN "buy" ELSE "sell"]])

vwap_get_trades(response) ==
    LET formatted_trades ==
          [i \in 1..Len(response) |->
             [timestamp |-> FormatTimestamp(response[i].time),
              price |-> response[i].price,
              volume |-> response[i].qty,
              side |-> IF response[i].isBuyerMaker THEN "buy" ELSE "sell"]]
    IN  Returned(formatted_trades)

PricesOf(ts) == [i \in 1..Len(ts) |-> ts[i].price]
VolumesOf(ts) == [i \in 1..Len(ts) |-> ts[i].volume]
ValuesOf(ts) == [i \in 1..Len(ts) |-> ts[i].price * ts[i].volume]

\* (mutant of calculate_vwap: divides by the number of trades)
calculate_vwap_PerTrade(ts) ==
    LET total_value == SumSeq(ValuesOf(ts))
    IN  Returned(IF Len(ts) > 0 THEN Q(total_value, Len(ts)) ELSE QInt(0))

calculate_vwap(ts) ==
    LET total_value == SumSeq(ValuesOf(ts))
        total_volume == SumSeq(VolumesOf(ts))
    IN  Returned(IF total_volume > 0 THEN Q(total_value, total_volume) ELSE QInt(0))

vwap_calculate_vwap(ts) ==
    LET total_value == SumSeq(ValuesOf(ts))
        total_volume == SumSeq(VolumesOf(ts))
        vwap == IF total_volume > 0 THEN Q(total_value, total_volume) ELSE QInt(0)
    IN  Returned(vwap)

\* np.std(np.diff(np.log(prices))) is 0 exactly when all consecutive log
\* returns are equal, that is when all consecutive price ratios are equal.
\* The volatility is modelled by its class: "0" (the literal 0 returned when
\* there is no return), "std=0" and "std>0".
ReturnsAllEqual(prices) ==
    \A i, j \in 1..(Len(prices) - 1) :
        prices[i + 1] * prices[j] = prices[j + 1] * prices[i]

calculate_realized_volatility(ts) ==
    LET prices == PricesOf(ts)
        n_returns == Max(Len(prices) - 1, 0)
    IN  Returned(IF n_returns > 0
                 THEN (IF ReturnsAllEqual(prices) THEN "std=0" ELSE "std>0")
                 ELSE "0")

vwap_calculate_realized_volatility(ts) ==
    LET prices == PricesOf(ts)
        n_returns == Max(Len(prices) - 1, 0)
        volatility == IF n_returns = 0 THEN "nan"
                      ELSE IF ReturnsAllEqual(prices) THEN "std=0" ELSE "std>0"
    IN  Returned(IF n_returns > 0 THEN volatility ELSE "0")

\* the index of the first largest of xs[lo..hi] (lo <= hi): the larger of the
\* two halves' results, the left one when they are equal
RECURSIVE ArgMaxRange(_, _, _)
ArgMaxRange(xs, lo, hi) ==
    IF lo = hi THEN lo
    ELSE LET mid == (lo + hi) \div 2
             left == ArgMaxRange(xs, lo, mid)
             right == ArgMaxRange(xs, mid + 1, hi)
         IN  IF xs[right] > xs[left] THEN right ELSE left

\* (mutant of np_argmax: the last of equal maxima)
RECURSIVE ArgMaxLastRange(_, _, _)
ArgMaxLastRange(xs, lo, hi) ==
    IF lo = hi THEN lo
    ELSE LET mid == (lo + hi) \div 2
             left == ArgMaxLastRange(xs, lo, mid)
             right == ArgMaxLastRange(xs, mid + 1, hi)
         IN  IF xs[right] >= xs[left] THEN right ELSE left

np_argmax_LastOccurrence(xs) == ArgMaxLastRange(xs, 1, Len(xs))

\* np.argmax(xs), 1-based, xs non-empty: the first of equal maxima
np_argmax(xs) == ArgMaxRange(xs, 1, Len(xs))

calculate_market_impact(ts) ==
    IF ts = <<>>
    THEN Raised("ValueError")        \* np.argmax of an empty sequence
    ELSE LET largest_trade_idx == np_argmax(VolumesOf(ts))
         IN  IF largest_trade_idx < Len(ts)
             THEN Returned(ts[largest_trade_idx + 1].price - ts[largest_trade_idx].price)
             ELSE Returned(0)

vwap_calculate_market_impact(ts) ==
    IF ts = <<>>
    THEN Raised("ValueError")
    ELSE LET largest_trade_idx == np_argmax(VolumesOf(ts))
         IN  IF largest_trade_idx < Len(ts)
             THEN LET price_before == ts[largest_trade_idx].price
                      price_after == ts[largest_trade_idx + 1].price
                      impact == price_after - price_before
                  IN  Returned(impact)
             ELSE Returned(0)

\* (mutant of calculate_order_flow: the sell sum is not filtered by side)
calculate_order_flow_UnfilteredSells(ts) ==
    LET buy_volume == SumSeq(VolumesOf(SelectSeq(ts, LAMBDA t : t.side = "buy")))
        sell_volume == SumSeq(VolumesOf(ts))
    IN  Returned(buy_volume - sell_volume)

\* (mutant of calculate_order_flow: the call consumes the trade list it is
\* given, so a call that directly follows one finds the list empty)
calculate_order_flow_ConsumesTrades(ts) ==
    LET buy_volume == SumSeq(VolumesOf(SelectSeq(ts, LAMBDA t : t.side = "buy")))
        sell_volume == SumSeq(VolumesOf(SelectSeq(ts, LAMBDA t : t.side = "sell")))
    IN  IF fn = "calculate_order_flow" THEN Returned(0)
        ELSE Returned(buy_volume - sell_volume)

calculate_order_flow(ts) ==
    LET buy_volume == SumSeq(VolumesOf(SelectSeq(ts, LAMBDA t : t.side = "buy")))
        sell_volume == SumSeq(VolumesOf(SelectSeq(ts, LAMBDA t : t.side = "sell")))
    IN  Returned(buy_volume - sell_volume)

vwap_calculate_order_flow(ts) ==
    LET buy_volume == SumSeq(VolumesOf(SelectSeq(ts, LAMBDA t : t.side = "buy")))
        sell_volume == SumSeq(VolumesOf(SelectSeq(ts, LAMBDA t : t.side = "sell")))
        net_order_flow == buy_volume - sell_volume
    IN  Returned(net_order_flow)

-----------------------------------------------------------------------------
(* Inputs *)

SeqsUpTo(S, n) == UNION {[1..k -> S] : k \in 0..n}

LevelSet == Prices \X Qtys

\* bids come best (highest) price first, asks best (lowest) price first; the
\* two sides are independent, so crossed and locked books are included
BidSides == {s \in SeqsUpTo(LevelSet, MaxLevels) :
               \A i \in 1..(Len(s) - 1) : s[i][1] > s[i + 1][1]}
AskSides == {s \in SeqsUpTo(LevelSet, MaxLevels) :
               \A i \in 1..(Len(s) - 1) : s[i][1] < s[i + 1][1]}

\* a raw order book: the keys present (none for an empty response) and
\* their values (None for an absent key)
RawOrderBook(k, b, a, u) ==
    [keys |-> k,
     bids |-> IF "bids" \in k THEN b ELSE None,
     asks |-> IF "asks" \in k THEN a ELSE None,
     lastUpdateId |-> IF "lastUpdateId" \in k THEN Some(u) ELSE None]

\* the `levels` arguments tried: none of the levels, the best level only, and
\* the default
DefaultLevels == 10
LevelArgs == {0, 1, DefaultLevels}

\* the trades of a short tape: any price, side and positive quantity, and the
\* zero-volume taker sell
TradeKinds ==
    {k \in [price : TradePrices, qty : TradeQtys, isBuyerMaker : BOOLEAN] :
        k.qty = 0 => (k.isBuyerMaker /\ \A p \in TradePrices : k.price <= p)}

\* a short tape: any trades, one every half second
ShortTape(kinds) ==
    [i \in 1..Len(kinds) |->
       [time |-> 1000 + 500 * i, price |-> kinds[i].price,
        qty |-> kinds[i].qty, isBuyerMaker |-> kinds[i].isBuyerMaker]]

ShortTapes == {ShortTape(k) : k \in SeqsUpTo(TradeKinds, MaxTrades)}

\* a run of n equal trades starting at millisecond `start`, all at the same
\* millisecond (dt = 0) or one per millisecond (dt = 1)
Run(n, qty, isBuyerMaker, dt, start) ==
    [i \in 1..n |->
       [time |-> start + dt * (i - 1), price |-> 100,
        qty |-> qty, isBuyerMaker |-> isBuyerMaker]]

\* a long tape: a run of taker buys, followed or not by a hundred small taker
\* sells, one per millisecond
LongTapes ==
    {Run(n1, q1, FALSE, d1, 1000) \o Run(n2, q2, TRUE, 1, 2000) :
        n1 \in RunLengths, n2 \in {0, 100},
        q1 \in TradeQtys, q2 \in {0, 5},
        d1 \in {0, 1}}

RawTapes == ShortTapes \cup LongTapes

-----------------------------------------------------------------------------
(* The state machine: an input is fetched, then the functions are applied   *)
(* to it, in any order and any number of times.                             *)

InitCalls ==
    /\ fn = "none"
    /\ mod = "none"
    /\ levels = None
    /\ ret = NotCalled
    /\ earlier = None

\* (a response without its lastUpdateId is drawn with one level a side at most)
InitBook ==
    /\ \E k \in SUBSET OrderBookKeys, b \in BidSides, a \in AskSides,
          u \in RevisionIds :
          /\ "lastUpdateId" \notin k => (Len(b) <= 1 /\ Len(a) <= 1)
          /\ orderbook_json = RawOrderBook(k, b, a, u)
    /\ order_book = None
    /\ raw_trades = <<>>
    /\ trades = None
    /\ InitCalls

InitTrades ==
    /\ orderbook_json = RawOrderBook({}, <<>>, <<>>, 0)
    /\ order_book = None
    /\ raw_trades \in RawTapes
    /\ trades = None
    /\ InitCalls

\* a call: its name, file, `levels` argument and outcome are recorded; a kept
\* earlier call notes that a call of another function has been made since
Called(f, m, lv, r) ==
    /\ fn' = f
    /\ mod' = m
    /\ levels' = lv
    /\ ret' = r
    /\ earlier' = IF earlier = None \/ f = earlier[1].fn THEN earlier
                  ELSE Some([earlier[1] EXCEPT !.between = TRUE])

\* order_book.py main(): analyze_orderbook(orderbook_data)
Call_analyze_orderbook ==
    /\ Called("analyze_orderbook", "order_book", None,
              analyze_orderbook(orderbook_json))
    /\ UNCHANGED <<orderbook_json, order_book, raw_trades, trades>>

\* analyze_market: order_book = get_order_book(...)
Call_get_order_book(m) ==
    LET r == IF m = "app" THEN get_order_book(orderbook_json)
             ELSE vwap_get_order_book(orderbook_json)
    IN  /\ Called("get_order_book", m, None, r)
        /\ order_book' = IF r.status = "returned" THEN Some(r.value) ELSE order_book
        /\ UNCHANGED <<orderbook_json, raw_trades, trades>>

Call_calculate_bid_ask_spread(m) ==
    /\ order_book # None
    /\ Called("calculate_bid_ask_spread", m, None,
              IF m = "app" THEN calculate_bid_ask_spread(order_book[1])
              ELSE vwap_calculate_bid_ask_spread(order_book[1]))
    /\ UNCHANGED <<orderbook_json, order_book, raw_trades, trades>>

Call_calculate_order_book_depth(m, lv) ==
    /\ order_book # None
    /\ Called("calculate_order_book_depth", m, lv,
              IF m = "app" THEN calculate_order_book_depth(order_book[1], lv)
              ELSE vwap_calculate_order_book_depth(order_book[1], lv))
    /\ UNCHANGED <<orderbook_json, order_book, raw_trades, trades>>

Call_calculate_order_book_imbalance(m, lv) ==
    /\ order_book # None
    /\ Called("calculate_order_book_imbalance", m, lv,
              IF m = "app" THEN calculate_order_book_imbalance(order_book[1], lv)
              ELSE vwap_calculate_order_book_imbalance(order_book[1], lv))
    /\ UNCHANGED <<orderbook_json, order_book, raw_trades, trades>>

\* trades.py main(): analyze_trades(trades_data)
Call_analyze_trades ==
    /\ Called("analyze_trades", "trades", None, analyze_trades(raw_trades))
    /\ UNCHANGED <<orderbook_json, order_book, raw_trades, trades>>

\* analyze_market: trades = get_trades(...)
Call_get_trades(m) ==
    LET r == IF m = "app" THEN get_trades(raw_trades)
             ELSE vwap_get_trades(raw_trades)
    IN  /\ Called("get_trades", m, None, r)
        /\ trades' = Some(r.value)
        /\ UNCHANGED <<orderbook_json, order_book, raw_trades>>

Call_calculate_vwap(m) ==
    /\ trades # None
    /\ Called("calculate_vwap", m, None,
              IF m = "app" THEN calculate_vwap(trades[1])
              ELSE vwap_calculate_vwap(trades[1]))
    /\ UNCHANGED <<orderbook_json, order_book, raw_trades, trades>>

Call_calculate_realized_volatility(m) ==
    /\ trades # None
    /\ Called("calculate_realized_volatility", m, None,
              IF m = "app" THEN calculate_realized_volatility(trades[1])
              ELSE vwap_calculate_realized_volatility(trades[1]))
    /\ UNCHANGED <<orderbook_json, order_book, raw_trades, trades>>

Call_calculate_market_impact(m) ==
    /\ trades # None
    /\ Called("calculate_market_impact", m, None,
              IF m = "app" THEN calculate_market_impact(trades[1])
              ELSE vwap_calculate_market_impact(trades[1]))
    /\ UNCHANGED <<orderbook_json, order_book, raw_trades, trades>>

Call_calculate_order_flow(m) ==
    /\ trades # None
    /\ Called("calculate_order_flow", m, None,
              IF m = "app" THEN calculate_order_flow(trades[1])
              ELSE vwap_calculate_order_flow(trades[1]))
    /\ UNCHANGED <<orderbook_json, order_book, raw_trades, trades>>

NextBook ==
    \/ Call_analyze_orderbook
    \/ \E m \in Modules : Call_get_order_book(m)
    \/ \E m \in Modules : Call_calculate_bid_ask_spread(m)
    \/ \E m \in Modules, lv \in LevelArgs : Call_calculate_order_book_depth(m, lv)
    \/ \E m \in Modules, lv \in LevelArgs : Call_calculate_order_book_imbalance(m, lv)

NextTrades ==
    \/ Call_analyze_trades
    \/ \E m \in Modules : Call_get_trades(m)
    \/ \E m \in Modules : Call_calculate_vwap(m)
    \/ \E m \in Modules : Call_calculate_realized_volatility(m)
    \/ \E m \in Modules : Call_calculate_market_impact(m)
    \/ \E m \in Modules : Call_calculate_order_flow(m)

\* either an order book or a trade tape has been fetched; the other input is
\* the empty response
Init == InitBook \/ InitTrades
Next == NextBook \/ NextTrades

\* the two stand-alone scoring scripts, order_book.py and trades.py
NextScores ==
    \/ Call_analyze_orderbook
    \/ Call_analyze_trades

\* malformed input: the fetched order book lacks its bids or its asks key and
\* the fetched trade list is empty; every function that can be given them
InitMalformed ==
    /\ InitBook
    /\ ~({"bids", "asks"} \subseteq orderbook_json.keys)

NextMalformed ==
    \/ Call_analyze_orderbook
    \/ \E m \in Modules : Call_get_order_book(m)
    \/ NextTrades

\* analyze_market fetches both inputs (lines 81-82) and then applies the
\* metrics to them, keeping each value in `results`; here the two scoring
\* functions are applied to the same inputs as well, the calls come in any
\* order and any number of times, and one outcome is kept
StatelessBooks ==
    {RawOrderBook(OrderBookKeys, b, a, u) :
        b \in {s \in BidSides : Len(s) = MaxLevels /\ \A i \in 1..Len(s) : s[i][2] = 200},
        a \in {s \in AskSides : Len(s) = MaxLevels /\ \A i \in 1..Len(s) : s[i][2] = 1},
        u \in RevisionIds}

StatelessTapes ==
    {ShortTape([i \in 1..MaxTrades |->
                  [price |-> p, qty |-> 5, isBuyerMaker |-> (i = 1)]]) :
        p \in TradePrices}

InitStateless ==
    /\ orderbook_json \in StatelessBooks
    /\ order_book = None
    /\ raw_trades \in StatelessTapes
    /\ trades = None
    /\ InitCalls

AnalysisFunctions ==
    {"analyze_orderbook", "analyze_trades", "calculate_bid_ask_spread",
     "calculate_order_book_depth", "calculate_order_book_imbalance",
     "calculate_vwap", "calculate_realized_volatility",
     "calculate_market_impact", "calculate_order_flow"}

\* the input a call of f is given (its `levels` argument is held in levels)
ArgsOf(f) ==
    CASE f = "analyze_orderbook" -> orderbook_json
      [] f = "analyze_trades" -> raw_trades
      [] f \in {"calculate_bid_ask_spread", "calculate_order_book_depth",
                "calculate_order_book_imbalance"} -> order_book
      [] OTHER -> trades

\* the outcome of the last call is kept, with the arguments it was given
Keep ==
    /\ earlier = None
    /\ fn \in AnalysisFunctions
    /\ earlier' = Some([fn |-> fn, mod |-> mod, levels |-> levels,
                        args |-> ArgsOf(fn), ret |-> ret, between |-> FALSE])
    /\ UNCHANGED <<orderbook_json, order_book, raw_trades, trades,
                   fn, mod, levels, ret>>

NextStateless ==
    \/ NextBook
    \/ NextTrades
    \/ Keep

Spec == Init /\ [][Next]_vars
SpecStateless == InitStateless /\ [][NextStateless]_vars
SpecScores == Init /\ [][NextScores]_vars
SpecMalformed == InitMalformed /\ [][NextMalformed]_vars
SpecBook == InitBook /\ [][NextBook]_vars
SpecTrades == InitTrades /\ [][NextTrades]_vars

-----------------------------------------------------------------------------
(* Properties *)

ValidOrderBook(ob) ==
    /\ ob.keys = OrderBookKeys
    /\ ob.bids # <<>>
    /\ ob.asks # <<>>

HasScore(r) ==
    /\ r.status = "returned"
    /\ "bullishness_score" \in DOMAIN r.value.json

\* C1: for every order book with non-empty bids and asks, analyze_orderbook
\* returns a score that is an integer in 1..10, and for every non-empty trade
\* list so does analyze_trades; this includes the inputs whose ask volume or
\* sell volume is 0.
C1_ScoreInRange ==
    /\ (fn = "analyze_orderbook" /\ ValidOrderBook(orderbook_json)) =>
          (HasScore(ret) /\ ret.value.json.bullishness_score \in 1..10)
    /\ (fn = "analyze_trades" /\ raw_trades # <<>>) =>
          (HasScore(ret) /\ ret.value.json.bullishness_score \in 1..10)
    /\ (fn \in {"analyze_orderbook", "analyze_trades"} /\ HasScore(ret)) =>
          ret.value.json.bullishness_score \in 1..10

\* an extreme order book is scored: no ask volume at all against resting bids
C1_Witness ==
    /\ fn = "analyze_orderbook"
    /\ HasScore(ret)
    /\ ret.value.json.total_ask_volume = 0
    /\ ret.value.json.top_ask_size = 0
    /\ ret.value.json.total_bid_volume > 0
    /\ ret.value.json.bullishness_score \in 1..10

\* the side the specification derives for a raw trade: the taker side
TakerSide(trade) == IF trade.isBuyerMaker THEN "sell" ELSE "buy"

\* C2: every path that turns a raw trade into a side treats isBuyerMaker =
\* true as a sell and isBuyerMaker = false as a buy: get_trades labels each
\* trade with its taker side, and the Net Order Flow computed from the
\* formatted trades equals buy_volume - sell_volume of analyze_trades on the
\* same raw trade list.
C2_TakerSideEverywhere ==
    /\ (fn = "get_trades") =>
          \A i \in 1..Len(raw_trades) :
              ret.value[i].side = TakerSide(raw_trades[i])
    /\ (fn = "calculate_order_flow" /\ raw_trades # <<>>) =>
          LET report == analyze_trades(raw_trades).value.json
          IN  QInt(ret.value) = QSub(report.buy_volume, report.sell_volume)

\* C3: with both keys present and bids or asks empty, the spread computation
\* and analyze_orderbook raise an InsufficientDataError and nothing else.
C3_EmptySideRaisesInsufficientData ==
    /\ (fn = "calculate_bid_ask_spread"
          /\ (order_book[1].bids = <<>> \/ order_book[1].asks = <<>>)) =>
          ret = Raised("InsufficientDataError")
    /\ (fn = "analyze_orderbook"
          /\ {"bids", "asks"} \subseteq orderbook_json.keys
          /\ (orderbook_json.bids = <<>> \/ orderbook_json.asks = <<>>)) =>
          ret = Raised("InsufficientDataError")

\* an invalid input is surfaced and nothing else comes back: the call raises
\* InvalidInputError, or returns only an error payload with no rationale
InvalidInputSurfaced(r) ==
    \/ r = Raised("InvalidInputError")
    \/ /\ r.status = "returned"
       /\ DOMAIN r.value = {"json", "rationale"}
       /\ DOMAIN r.value.json = {"error"}
       /\ r.value.rationale = None

TradeMetrics ==
    {"calculate_vwap", "calculate_realized_volatility",
     "calculate_market_impact", "calculate_order_flow"}

\* C4 as claimed: an order book without its bids or asks key given to
\* analyze_orderbook, and an empty trade list given to analyze_trades or to
\* the trade metrics of the combined report, are surfaced as an invalid input,
\* and no score, metric or rationale is produced.
C4_MalformedInputSurfaced ==
    /\ (fn = "analyze_orderbook"
          /\ ~({"bids", "asks"} \subseteq orderbook_json.keys)) =>
          InvalidInputSurfaced(ret)
    /\ (fn = "analyze_trades" /\ raw_trades = <<>>) => InvalidInputSurfaced(ret)
    /\ (fn \in TradeMetrics /\ trades = Some(<<>>)) => InvalidInputSurfaced(ret)

ErrorPayload(message) ==
    Returned([json |-> [error |-> message], rationale |-> None])

\* C4 (amended): analyze_orderbook on an order book without its bids or asks
\* key, and analyze_trades on an empty trade list, return an error payload
\* with no rationale and no score (nothing is raised); the trade metrics
\* accept an empty trade list: calculate_vwap, calculate_realized_volatility
\* and calculate_order_flow return 0 and calculate_market_impact raises
\* numpy's ValueError.
C4_MalformedInputOutcome ==
    /\ (fn = "analyze_orderbook"
          /\ ~({"bids", "asks"} \subseteq orderbook_json.keys)) =>
          ret = ErrorPayload("Invalid order book data")
    /\ (fn = "analyze_trades" /\ raw_trades = <<>>) =>
          ret = ErrorPayload("No trade data available")
    /\ (fn = "calculate_vwap" /\ trades = Some(<<>>)) => ret = Returned(QInt(0))
    /\ (fn = "calculate_realized_volatility" /\ trades = Some(<<>>)) =>
          ret = Returned("0")
    /\ (fn = "calculate_order_flow" /\ trades = Some(<<>>)) => ret = Returned(0)
    /\ (fn = "calculate_market_impact" /\ trades = Some(<<>>)) =>
          ret = Raised("ValueError")

\* an order book with bids but no asks key has been analysed
C4_Witness ==
    /\ fn = "analyze_orderbook"
    /\ "bids" \in orderbook_json.keys
    /\ orderbook_json.bids # <<>>
    /\ "asks" \notin orderbook_json.keys
    /\ ret.status = "returned"
    /\ "error" \in DOMAIN ret.value.json

-----------------------------------------------------------------------------
(* Order-book metrics *)

\* the summed quantity of the first lv entries of a side
DepthOf(side, lv) ==
    SumSeq([i \in 1..Min(lv, Len(side)) |-> side[i][2]])

\* C5: for every order book and every levels >= 0,
\* calculate_order_book_imbalance returns a value in [-1, 1], which is
\* exactly 0 when the summed bid depth and the summed ask depth over the
\* first `levels` entries are both 0 (both sides empty included); it never
\* raises.
C5_ImbalanceBounded ==
    (fn = "calculate_order_book_imbalance") =>
        /\ ret.status = "returned"
        /\ QLe(QInt(-1), ret.value)
        /\ QLe(ret.value, QInt(1))
        /\ (DepthOf(order_book[1].bids, levels) = 0
              /\ DepthOf(order_book[1].asks, levels) = 0) => ret.value = QInt(0)

\* the imbalance of a book holding levels but no volume in the levels summed
C5_Witness ==
    /\ fn = "calculate_order_book_imbalance"
    /\ levels > 0
    /\ order_book[1].bids # <<>>
    /\ order_book[1].asks # <<>>
    /\ DepthOf(order_book[1].bids, levels) = 0
    /\ DepthOf(order_book[1].asks, levels) = 0
    /\ ret = Returned(QInt(0))

\* C6: for every order book with non-empty bids and asks, the spread of
\* calculate_bid_ask_spread and the spread field of analyze_orderbook equal
\* the price of the first ask minus the price of the first bid; for a crossed
\* book the result is negative and nothing is raised.
C6_SpreadIsAskMinusBid ==
    /\ (fn = "calculate_bid_ask_spread"
          /\ order_book[1].bids # <<>> /\ order_book[1].asks # <<>>) =>
          LET best_bid == order_book[1].bids[1][1]
              best_ask == order_book[1].asks[1][1]
          IN  /\ ret = Returned(best_ask - best_bid)
              /\ best_bid > best_ask => ret.value < 0
    /\ (fn = "analyze_orderbook" /\ ValidOrderBook(orderbook_json)) =>
          LET best_bid == orderbook_json.bids[1][1]
              best_ask == orderbook_json.asks[1][1]
          IN  /\ ret.status = "returned"
              /\ ret.value.json.spread = best_ask - best_bid
              /\ best_bid > best_ask => ret.value.json.spread < 0

\* a crossed book has been analysed and its negative spread reported
C6_Witness ==
    /\ fn = "analyze_orderbook"
    /\ ValidOrderBook(orderbook_json)
    /\ orderbook_json.bids[1][1] > orderbook_json.asks[1][1]
    /\ ret.status = "returned"
    /\ ret.value.json.spread < 0

-----------------------------------------------------------------------------
(* Trade metrics and classification *)

\* the smallest index whose volume is the maximum volume
FirstLargest(ts) ==
    CHOOSE i \in 1..Len(ts) :
        /\ \A j \in 1..Len(ts) : ts[j].volume <= ts[i].volume
        /\ \A j \in 1..(i - 1) : ts[j].volume < ts[i].volume

\* C7: for every non-empty trade sequence calculate_market_impact takes the
\* smallest index idx whose volume is the maximum volume (the first one on
\* ties, in sequence order); it returns price[idx+1] - price[idx] when idx is
\* not the last index, and 0 otherwise.
C7_MarketImpactFirstLargest ==
    (fn = "calculate_market_impact" /\ trades[1] # <<>>) =>
        LET ts == trades[1]
            idx == FirstLargest(ts)
        IN  ret = Returned(IF idx < Len(ts)
                           THEN ts[idx + 1].price - ts[idx].price
                           ELSE 0)

\* the largest volume occurs first and then again as the last trade, and the
\* price move after its first occurrence is reported
C7_Witness ==
    /\ fn = "calculate_market_impact"
    /\ Len(trades[1]) >= 2
    /\ FirstLargest(trades[1]) < Len(trades[1])
    /\ trades[1][Len(trades[1])].volume = trades[1][FirstLargest(trades[1])].volume
    /\ ret.status = "returned"
    /\ ret.value # 0

\* the statistics of the classification, from the raw tape
TapeSum(tape) == SumSeq([i \in 1..Len(tape) |-> tape[i].qty])
TapeSumSquares(tape) == SumSeq([i \in 1..Len(tape) |-> tape[i].qty * tape[i].qty])
TapeLargeCount(tape) == Cardinality({i \in 1..Len(tape) : tape[i].qty >= 100})
TapeMaxPerTimestamp(tape) ==
    LET per(i) == Cardinality({j \in 1..Len(tape) : tape[j].time = tape[i].time})
    IN  CHOOSE m \in {per(i) : i \in 1..Len(tape)} :
            \A i \in 1..Len(tape) : per(i) <= m

\* rule 1: avg_trade_size < 0.1 and size_std < 0.5 and at most 5 per timestamp
\* (in quantity units: mean < 10, sample variance < 2500)
RetailRule(tape) ==
    LET n == Len(tape)
    IN  /\ TapeSum(tape) < 10 * n
        /\ n > 1 => n * TapeSumSquares(tape) - TapeSum(tape) * TapeSum(tape)
                       < 2500 * n * (n - 1)
        /\ TapeMaxPerTimestamp(tape) <= 5

\* rule 2: avg_trade_size >= 1.0 or more than 10 large trades or more than 20
\* per timestamp
ProfessionalRule(tape) ==
    \/ TapeSum(tape) >= 100 * Len(tape)
    \/ TapeLargeCount(tape) > 10
    \/ TapeMaxPerTimestamp(tape) > 20

\* C8: for every non-empty trade list analyze_trades assigns exactly one
\* trader type, in fixed priority order: Retail when rule 1 holds, otherwise
\* Professional when rule 2 holds, otherwise Mixed; an input satisfying both
\* rules is Retail.
C8_TraderTypePriority ==
    (fn = "analyze_trades" /\ raw_trades # <<>>) =>
        /\ ret.status = "returned"
        /\ ret.value.json.trader_type =
              (IF RetailRule(raw_trades) THEN "Retail"
               ELSE IF ProfessionalRule(raw_trades) THEN "Professional/Institutional"
               ELSE "Mixed")
        /\ (RetailRule(raw_trades) /\ ProfessionalRule(raw_trades)) =>
              ret.value.json.trader_type = "Retail"

\* a tape satisfying both rules (more than 10 large trades, small average
\* size) has been classified Retail
C8_Witness ==
    /\ fn = "analyze_trades"
    /\ raw_trades # <<>>
    /\ RetailRule(raw_trades)
    /\ ProfessionalRule(raw_trades)
    /\ ret.value.json.large_trade_count > 10
    /\ ret.value.json.trader_type = "Retail"

\* the trade list with every side label swapped
SwapSides(ts) ==
    [i \in 1..Len(ts) |->
       [ts[i] EXCEPT !.side = IF @ = "buy" THEN "sell" ELSE "buy"]]

\* the volume of a trade counted positive for a buy and negative for a sell
SignedVolume(t) ==
    IF t.side = "buy" THEN t.volume
    ELSE IF t.side = "sell" THEN -t.volume
    ELSE 0

OrderFlowOf(m, ts) ==
    IF m = "app" THEN calculate_order_flow(ts) ELSE vwap_calculate_order_flow(ts)

\* C9: for every trade list calculate_order_flow returns the volume of the
\* buys minus the volume of the sells, and on the list with every side label
\* swapped it returns exactly the negated result.
C9_OrderFlowAntisymmetric ==
    (fn = "calculate_order_flow") =>
        /\ ret = Returned(SumSeq([i \in 1..Len(trades[1]) |->
                                   SignedVolume(trades[1][i])]))
        /\ OrderFlowOf(mod, SwapSides(trades[1])) = Returned(-ret.value)

\* buys and sells of different total volume have been netted
C9_Witness ==
    /\ fn = "calculate_order_flow"
    /\ \E i, j \in 1..Len(trades[1]) :
          /\ trades[1][i].side = "buy" /\ trades[1][i].volume > 0
          /\ trades[1][j].side = "sell" /\ trades[1][j].volume > 0
    /\ ret.status = "returned"
    /\ ret.value # 0
    /\ OrderFlowOf(mod, SwapSides(trades[1])).value = -ret.value

\* C10: for every trade list calculate_vwap returns
\* sum(price * volume) / sum(volume) when the total volume is positive and 0
\* when it is 0; when all trades have the same price p and the total volume
\* is positive the result is p.
C10_VwapIsWeightedAverage ==
    (fn = "calculate_vwap") =>
        LET ts == trades[1]
            total_volume == SumSeq([i \in 1..Len(ts) |-> ts[i].volume])
            total_value == SumSeq([i \in 1..Len(ts) |-> ts[i].price * ts[i].volume])
        IN  /\ ret.status = "returned"
            /\ total_volume > 0 =>
                  ret.value.n * total_volume = ret.value.d * total_value
            /\ total_volume = 0 => ret.value = QInt(0)
            /\ \A p \in TradePrices :
                  ((\A i \in 1..Len(ts) : ts[i].price = p) /\ total_volume > 0) =>
                      ret.value = QInt(p)

\* trades of different volumes at one price have been averaged to that price
C10_Witness ==
    /\ fn = "calculate_vwap"
    /\ Len(trades[1]) >= 2
    /\ \A i \in 1..Len(trades[1]) : trades[1][i].price = trades[1][1].price
    /\ \E i, j \in 1..Len(trades[1]) :
          0 < trades[1][i].volume /\ trades[1][i].volume < trades[1][j].volume
    /\ ret = Returned(QInt(trades[1][1].price))

C12_NearBandAndScore ==
    (fn = "analyze_orderbook" /\ ValidOrderBook(orderbook_json)) =>
        LET bids == orderbook_json.bids
            asks == orderbook_json.asks
            best_bid == bids[1][1]
            near_bid == SumSeq([i \in 1..Len(bids) |->
                          IF bids[i][1] >= best_bid - 10 THEN bids[i][2] ELSE 0])
            near_ask == SumSeq([i \in 1..Len(asks) |->
                          IF asks[i][1] <= best_bid + 10 THEN asks[i][2] ELSE 0])
            total_bid == SumSeq([i \in 1..Len(bids) |-> bids[i][2]])
            total_ask == SumSeq([i \in 1..Len(asks) |-> asks[i][2]])
            Ratio(x, y) == QDiv(QInt(x), QMax(QInt(y), Q(1, 10)))
            near_score == QMin(QMul(QInt(2), QMin(Ratio(near_bid, near_ask), QInt(10))),
                               QInt(10))
            total_score == QMin(Ratio(total_bid, total_ask), QInt(5))
            top_score == QMin(QMul(Q(1, 2), QMin(Ratio(bids[1][2], asks[1][2]), QInt(5))),
                              Q(5, 2))
            raw == QAdd(QAdd(QMul(Q(7, 10), near_score), QMul(Q(15, 100), total_score)),
                        QMul(Q(15, 100), top_score))
            rounded == PyRound(raw)
            score == IF rounded < 1 THEN 1 ELSE IF rounded > 10 THEN 10 ELSE rounded
        IN  /\ HasScore(ret)
            /\ ret.value.json.near_bid_volume = near_bid
            /\ ret.value.json.near_ask_volume = near_ask
            /\ ret.value.rationale[1].near_score = near_score
            /\ ret.value.rationale[1].total_score = total_score
            /\ ret.value.rationale[1].top_score = top_score
            /\ ret.value.json.bullishness_score = score

\* an ask within 10 of the best ask but more than 10 above the best bid has
\* been left out of the near ask volume, which the nearer ask makes positive
C12_Witness ==
    /\ fn = "analyze_orderbook"
    /\ ValidOrderBook(orderbook_json)
    /\ HasScore(ret)
    /\ \E i \in 1..Len(orderbook_json.asks) :
          /\ orderbook_json.asks[i][2] > 0
          /\ orderbook_json.asks[i][1] > orderbook_json.bids[1][1] + 10
          /\ orderbook_json.asks[i][1] <= orderbook_json.asks[1][1] + 10
    /\ ret.value.json.near_ask_volume < ret.value.json.total_ask_volume
    /\ ret.value.json.near_ask_volume > 0

\* C13: the caps and weights keep the score below the top of its range: for
\* every valid order book the raw score of analyze_orderbook is at most
\* 10 * 0.7 + 5 * 0.15 + 2.5 * 0.15 = 8.125 and its score at most 8, and for
\* every non-empty trade list the raw score of analyze_trades is at most
\* 10 * 0.5 + 10 * 0.3 + 5 * 0.2 = 9 and its score at most 9.
C13_ScoreBelowTop ==
    LET \* q <= 8.125 and q <= 9 for a fraction q >= 0, by whole part and remainder
        AtMost8_125(q) == \/ q.n \div q.d < 8
                          \/ (q.n \div q.d = 8 /\ q.n % q.d <= q.d \div 8)
        AtMost9(q) == \/ q.n \div q.d < 9
                      \/ (q.n \div q.d = 9 /\ q.n % q.d = 0)
    IN
    /\ (fn = "analyze_orderbook" /\ ValidOrderBook(orderbook_json)) =>
          /\ HasScore(ret)
          /\ AtMost8_125(ret.value.rationale[1].raw_score)
          /\ ret.value.json.bullishness_score <= 8
    /\ (fn = "analyze_trades" /\ raw_trades # <<>>) =>
          /\ HasScore(ret)
          /\ AtMost9(ret.value.rationale[1].raw_score)
          /\ ret.value.json.bullishness_score <= 9

\* the bound is met: an order book reaches all three caps, its raw score is
\* 8.125 and its score 8
C13_Witness ==
    /\ fn = "analyze_orderbook"
    /\ ValidOrderBook(orderbook_json)
    /\ HasScore(ret)
    /\ ret.value.rationale[1].near_score = QInt(10)
    /\ ret.value.rationale[1].total_score = QInt(5)
    /\ ret.value.rationale[1].top_score = Q(5, 2)
    /\ ret.value.rationale[1].raw_score = Q(8125, 1000)
    /\ ret.value.json.bullishness_score = 8

\* the bound of analyze_trades is met as well: a tape of taker buys only
\* scores 9
C13_TradesReachNine ==
    /\ fn = "analyze_trades"
    /\ HasScore(ret)
    /\ ret.value.rationale[1].raw_score = QInt(9)
    /\ ret.value.json.bullishness_score = 9

=============================================================================
